---- MODULE Spec2Model ----
(***************************************************************************)
(* A model of the TT.Eval execution engine (src/TT.Eval/EvalCore.h): the   *)
(* Leaf/Branch tree held through shared pointers, the Data stack, the Log, *)
(* the severity gate, the built-in operations, the two dispatchers EvalCom  *)
(* and EvalComs, the pattern interpreter Require and PrintData.            *)
(*                                                                         *)
(* Text is a sequence of chunks.  A chunk of user text is one character; a *)
(* chunk of a diagnostic is one literal of the source.  Nodes live in a    *)
(* heap (a sequence of node records, the index being the node's identity); *)
(* Data holds identities, as std::stack<sp<BranchBase>> holds pointers.    *)
(***************************************************************************)
EXTENDS Integers, Sequences, FiniteSets, TLC

VARIABLES heap, Data, Log, ApprovedLevel, run, call, coms, idx, evald, snap, phase

vars == <<heap, Data, Log, ApprovedLevel, run, call, coms, idx, evald, snap, phase>>

(* ------------------------------ bounds -------------------------------- *)
\* most nodes and characters (together) the evaluator holds after a call of
\* the unrestricted runs
MaxSize == 5
\* most tokens evaluated to prepare the stack an operation is tried on
MaxScript == 4
\* most calls of a run that tries the severity gate
MaxCalls == 3
\* longest batch handed to EvalComs
MaxBatch == 3
\* longest source and separator of the split/concat runs
MaxSrc == 3
MaxSep == 2
\* longest text handed to RequireInteger
MaxText == 9
\* most steps made on a copy and its original
MaxMutations == 3
\* longest of the patterns handed to Require, the pattern vbv.v apart
MaxPattern == 2
\* largest depth and largest index handed to the column extractions
MaxColumnDepth == 3
MaxColumnIndex == 2

(* ------------------------- ExecutionEngineException ------------------- *)
Warning == 0
Minor == 1
Critical == 2
Fatal == 3
Levels == {Warning, Minor, Critical, Fatal}

\* what a Level that was never initialised may read as (its underlying type
\* is int): the four levels, a value below them and a value above them
IndeterminateLevels == (Warning - 1) .. (Fatal + 1)

Nullptr == [null |-> TRUE]

\* the constructor: `what += "[...]"` changes the parameter after what_ was
\* initialised from it, so what_ is `what`, followed by base->what().
ExecutionEngineException(base, what, level) ==
    [base_ |-> base,
     what_ |-> IF base # Nullptr THEN what \o base.what_ ELSE what,
     err_level_ |-> level]

\* the thrown object is the outer exception, built with the default level
ThrowWraped(msg, level) ==
    ExecutionEngineException(ExecutionEngineException(Nullptr, <<msg>>, level),
                             <<"Execution engine exception">>, Fatal)

ErrorLevel(exception) == exception.err_level_

NoExc == [none |-> TRUE]

MsgMissing == "Required argument, but not passed"
MsgBranchAsValue == "Branch as value argument"
MsgValueAsBranch == "Value as branch argument"
MsgTooLarge == "Number larger than integer"
MsgEmptyNumber == "Passing empty as number"
MsgNotNumber == "Not a number passed as an integer"
MsgTooFew == "Too few arguments to unpack"
MsgZeroDepth == "Cannot extract from zero depth"
MsgEmptySplit == "Empty passed as split"
MsgSyntax == "Require syntax error"

(* -------------------------------- text -------------------------------- *)
\* the characters '0' .. '9', which have consecutive codes
Digits == <<"0", "1", "2", "3", "4", "5", "6", "7", "8", "9">>

\* c - '0' for a digit c, a value outside 0 .. 9 for any other character
DigitOf(c) ==
    IF \E d \in 1 .. 10 : Digits[d] = c
    THEN (CHOOSE d \in 1 .. 10 : Digits[d] = c) - 1
    ELSE 0 - 1

\* not (c < '0' || c > '9')
IsDigit(c) == DigitOf(c) >= 0

IntMax == 2147483647

\* num_get: the digits are accumulated, saturating at the int's maximum
\* acc * 10 + d, saturating at the int's maximum
Shift(acc, d) == IF acc > (IntMax - d) \div 10 THEN IntMax ELSE acc * 10 + d

RECURSIVE Accumulate(_, _)
Accumulate(s, acc) ==
    IF s = <<>> \/ ~IsDigit(s[1]) \/ acc = IntMax THEN acc
    ELSE Accumulate(Tail(s), Shift(acc, DigitOf(s[1])))

RECURSIVE SkipWs(_)
SkipWs(s) == IF s # <<>> /\ s[1] = " " THEN SkipWs(Tail(s)) ELSE s

\* the sign and the digits after the blanks
Signed(t) ==
    IF t # <<>> /\ t[1] = "-" THEN 0 - Accumulate(Tail(t), 0)
    ELSE IF t # <<>> /\ t[1] = "+" THEN Accumulate(Tail(t), 0)
    ELSE Accumulate(t, 0)

\* Value::ReadAs<int>: `stringstream >> int` skips blanks, reads a sign and
\* the leading digits, and stores 0 when there is no digit.
ReadAs(Stored) == Signed(SkipWs(Stored))

npos == 0 - 1

\* std::string::find(split, p), positions counted from 0
Find(value, split, p) ==
    LET hits == {k \in p .. (Len(value) - Len(split)) :
                    SubSeq(value, k + 1, k + Len(split)) = split}
    IN  IF hits = {} THEN npos ELSE CHOOSE k \in hits : \A j \in hits : k <= j

\* std::string::substr(p, n), 0 <= p <= size
Substr(value, p, n) ==
    SubSeq(value, p + 1, IF p + n > Len(value) THEN Len(value) ELSE p + n)

\* `size() < n` with n an int: n is converted to size_t, a negative n to a
\* value above every size
SizeLess(size, n) == IF n < 0 THEN TRUE ELSE size < n

(* ------------------------------ the tree ------------------------------ *)
\* mutant: the text handed to the constructor is not stored
Value_blank(row) == [kind |-> "Value", Stored |-> <<>>]

Value(row) == [kind |-> "Value", Stored |-> row]
Branch(children) == [kind |-> "Branch", Branches |-> children]

IsValueNode(n) == n.kind = "Value"

RECURSIVE Depth(_, _)
RECURSIVE MaxDepth(_, _, _)
MaxDepth(h, ids, max) ==
    IF ids = <<>> THEN max
    ELSE LET d == Depth(h, ids[1]) IN
         MaxDepth(h, Tail(ids), IF d > max THEN d ELSE max)

\* BranchBase::Depth: 0 for a Value, 1 + the deepest child for a Branch
Depth(h, id) ==
    IF IsValueNode(h[id]) THEN 0 ELSE MaxDepth(h, h[id].Branches, 0) + 1

is_branch(h, id) == Depth(h, id) > 0
is_value(h, id) == Depth(h, id) = 0

\* std::make_shared: a new node, identified by its place in the heap
Alloc(h, node) == [heap |-> Append(h, node), id |-> Len(h) + 1]

RECURSIVE CopyNode(_, _)
RECURSIVE CopyAll(_, _, _)
\* the loop of Branch::Copy: the children are copied in order
CopyAll(h, ids, done) ==
    IF ids = <<>> THEN [heap |-> h, ids |-> done]
    ELSE LET c == CopyNode(h, ids[1]) IN
         CopyAll(c.heap, Tail(ids), Append(done, c.id))

\* mutant: the "copy" is the node itself
CopyNode_shared(h, id) == [heap |-> h, id |-> id]

\* Value::Copy and Branch::Copy: a new node, the children copied recursively
CopyNode(h, id) ==
    IF IsValueNode(h[id]) THEN Alloc(h, Value(h[id].Stored))
    ELSE LET cs == CopyAll(h, h[id].Branches, <<>>) IN
         Alloc(cs.heap, Branch(cs.ids))

(* ------------------- the state an operation works on ------------------ *)
(* e = [heap, Data, exc, ub]: exc is the exception thrown (NoExc if none), *)
(* ub is TRUE once the operation has executed undefined behaviour.         *)
Size(e) == Len(e.Data)
TopId(e) == e.Data[Len(e.Data)]
Pop(e) == [e EXCEPT !.Data = SubSeq(e.Data, 1, Len(e.Data) - 1)]
Push(e, id) == [e EXCEPT !.Data = Append(e.Data, id)]
Throw(e, msg, level) == [e EXCEPT !.exc = ThrowWraped(msg, level)]
Undefined(e) == [e EXCEPT !.ub = TRUE]
\* push a newly made node
PushNew(e, node) ==
    LET a == Alloc(e.heap, node) IN Push([e EXCEPT !.heap = a.heap], a.id)
\* push a copy of node id
PushCopy(e, id) ==
    LET c == CopyNode(e.heap, id) IN Push([e EXCEPT !.heap = c.heap], c.id)

(* ----------------------------- Require... ----------------------------- *)
RequireValue(h, br) ==
    IF ~is_value(h, br) THEN ThrowWraped(MsgBranchAsValue, Critical) ELSE NoExc

RequireBranch(h, br) ==
    IF ~is_branch(h, br) THEN ThrowWraped(MsgValueAsBranch, Critical) ELSE NoExc

IsEmpty(Stored) == Len(Stored) = 0 \/ Stored = <<>>

\* mutant: the size of the text is not looked at
RequireInteger_anySize(h, br) ==
    IF RequireValue(h, br) # NoExc THEN RequireValue(h, br)
    ELSE LET Stored == h[br].Stored IN
         IF IsEmpty(Stored)
         THEN ThrowWraped(MsgEmptyNumber, Critical)
         ELSE IF \E i \in 1 .. Len(Stored) : ~IsDigit(Stored[i])
         THEN ThrowWraped(MsgNotNumber, Critical)
         ELSE NoExc

RequireInteger(h, br) ==
    IF RequireValue(h, br) # NoExc THEN RequireValue(h, br)
    ELSE LET Stored == h[br].Stored IN
         IF Len(Stored) > 8
         THEN ThrowWraped(MsgTooLarge, Critical)
         ELSE IF IsEmpty(Stored)
         THEN ThrowWraped(MsgEmptyNumber, Critical)
         ELSE IF \E i \in 1 .. Len(Stored) : ~IsDigit(Stored[i])
         THEN ThrowWraped(MsgNotNumber, Critical)
         ELSE NoExc

RequireTop(e, sz) ==
    IF SizeLess(Size(e), sz) THEN ThrowWraped(MsgMissing, Critical) ELSE NoExc

RequireValueTop(e) ==
    IF RequireTop(e, 1) # NoExc THEN RequireTop(e, 1)
    ELSE RequireValue(e.heap, TopId(e))

RequireIntegerTop(e) ==
    IF RequireTop(e, 1) # NoExc THEN RequireTop(e, 1)
    ELSE RequireInteger(e.heap, TopId(e))

RequireBranchTop(e) ==
    IF RequireTop(e, 1) # NoExc THEN RequireTop(e, 1)
    ELSE RequireBranch(e.heap, TopId(e))

(* ------------------------------- Require ------------------------------ *)
(* q = [l, c_p, exc, ub]: the stack l of the Branches entered and the      *)
(* stack c_p of the cursors (tops last), the exception thrown, and ub once *)
(* a top() or pop() of an empty stack or a Branches[] outside the vector   *)
(* was executed.                                                           *)
Stopped(q) == q.ub \/ q.exc # NoExc

\* l.top()->Branches[c_p.top()] can be evaluated
Addressable(h, q) ==
    /\ q.l # <<>>
    /\ q.c_p # <<>>
    /\ q.c_p[Len(q.c_p)] >= 0
    /\ q.c_p[Len(q.c_p)] < Len(h[q.l[Len(q.l)]].Branches)

\* l.top()->Branches[c_p.top()]
Addressed(h, q) == h[q.l[Len(q.l)]].Branches[q.c_p[Len(q.c_p)] + 1]

\* c_p.top()++
Advanced(q) == [q EXCEPT !.c_p[Len(q.c_p)] = @ + 1]

\* l.pop(); c_p.pop();
RequireClose(q) ==
    IF q.l = <<>> \/ q.c_p = <<>> THEN [q EXCEPT !.ub = TRUE]
    ELSE [q EXCEPT !.l = SubSeq(q.l, 1, Len(q.l) - 1),
                   !.c_p = SubSeq(q.c_p, 1, Len(q.c_p) - 1)]

\* RequireBranch(...); l.push(as_branch(...)); c_p.top()++; c_p.push(0);
RequireOpen(h, q) ==
    IF ~Addressable(h, q) THEN [q EXCEPT !.ub = TRUE]
    ELSE IF RequireBranch(h, Addressed(h, q)) # NoExc
    THEN [q EXCEPT !.exc = RequireBranch(h, Addressed(h, q))]
    ELSE [q EXCEPT !.l = Append(q.l, Addressed(h, q)),
                   !.c_p = Append(Advanced(q).c_p, 0)]

\* the cases 'v', 'i' and 'e' of the switch
RequireChild(h, q, ch) ==
    IF ~Addressable(h, q) THEN [q EXCEPT !.ub = TRUE]
    ELSE IF ch = "v" /\ RequireValue(h, Addressed(h, q)) # NoExc
    THEN [q EXCEPT !.exc = RequireValue(h, Addressed(h, q))]
    ELSE IF ch = "i" /\ RequireInteger(h, Addressed(h, q)) # NoExc
    THEN [q EXCEPT !.exc = RequireInteger(h, Addressed(h, q))]
    ELSE Advanced(q)

\* the if / else if that precedes the switch
RequireFirst(h, q, ch) ==
    IF ch = "." THEN RequireClose(q)
    ELSE IF ch = "b" THEN RequireOpen(h, q)
    ELSE q

\* the switch, entered with what the if / else if left
RequireSwitch(h, q, ch) ==
    IF Stopped(q) THEN q
    ELSE IF ch = "." THEN RequireClose(q)
    ELSE IF ch = "b" THEN RequireOpen(h, q)
    ELSE IF ch \in {"v", "i", "e"} THEN RequireChild(h, q, ch)
    ELSE [q EXCEPT !.exc = ThrowWraped(MsgSyntax, Critical)]

\* request[index], which is the terminating character (written "" here) at
\* index = size()
CharAt(request, index) ==
    IF index < Len(request) THEN request[index + 1] ELSE ""

RECURSIVE RequireLoop(_, _, _, _)
\* do { ... index++; } while (index < request.size()), index counted from 0
RequireLoop(h, request, index, q) ==
    IF Stopped(q) \/ (index > 0 /\ ~(index < Len(request))) THEN q
    ELSE RequireLoop(h, request, index + 1,
             RequireSwitch(h, RequireFirst(h, q, CharAt(request, index)),
                           CharAt(request, index)))

\* Evaluator::Require(request, br): l holds br, c_p is empty
Require(request, h, br) ==
    IF RequireBranch(h, br) # NoExc
    THEN [l |-> <<>>, c_p |-> <<>>, exc |-> RequireBranch(h, br), ub |-> FALSE]
    ELSE RequireLoop(h, request, 0,
                     [l |-> <<br>>, c_p |-> <<>>, exc |-> NoExc, ub |-> FALSE])

\* an operation that starts with a check: the check's exception, or the rest
Checked(e, exc, rest) == IF exc # NoExc THEN [e EXCEPT !.exc = exc] ELSE rest

(* --------------------------- the operations --------------------------- *)
\* mutant: the children are stored in pop order
BranchFromStack_popOrder(e, taken) ==
    LET n == Size(e)
        kept == SubSeq(e.Data, 1, n - taken)
        a == Alloc(e.heap, Branch([i \in 1 .. taken |-> e.Data[n + 1 - i]]))
    IN  [e |-> [e EXCEPT !.heap = a.heap, !.Data = kept], id |-> a.id]

\* Branch::Branch(stack, taken): Branches[taken-1] is the top, ..., Branches[0]
\* the deepest of the taken nodes, which leave the stack
BranchFromStack(e, taken) ==
    LET n == Size(e)
        kept == SubSeq(e.Data, 1, n - taken)
        a == Alloc(e.heap, Branch(SubSeq(e.Data, n - taken + 1, n)))
    IN  [e |-> [e EXCEPT !.heap = a.heap, !.Data = kept], id |-> a.id]

PackTop(e) ==
    IF Size(e) = 0 THEN Throw(e, MsgMissing, Critical)
    ELSE LET b == BranchFromStack(e, 1) IN Push(b.e, b.id)

RECURSIVE UnpackLoop(_, _)
UnpackLoop(e, ids) ==
    IF ids = <<>> THEN e ELSE UnpackLoop(PushCopy(e, ids[1]), Tail(ids))

\* Branch::Unpack: a copy of every child is pushed, then the children go
Unpack(e, br) ==
    LET p == UnpackLoop(e, e.heap[br].Branches)
    IN  [p EXCEPT !.heap[br].Branches = <<>>]

UnpackTop(e) ==
    Checked(e, RequireBranchTop(e), Unpack(Pop(e), TopId(e)))

RECURSIVE SameLevelLoop(_, _, _)
SameLevelLoop(e, d, children) ==
    IF Size(e) > 0 /\ Depth(e.heap, TopId(e)) = d
    THEN SameLevelLoop(Pop(e), d, Append(children, TopId(e)))
    ELSE [e |-> e, children |-> children]

\* mutant: the run is packed in stack order
PackTopSameLevel_stackOrder(e) ==
    IF Size(e) = 0 THEN Undefined(e)
    ELSE LET r == SameLevelLoop(e, Depth(e.heap, TopId(e)), <<>>)
             n == Len(r.children)
         IN  PushNew(r.e, Branch([i \in 1 .. n |-> r.children[n + 1 - i]]))

\* Data.top() is read first: undefined on an empty stack
PackTopSameLevel(e) ==
    IF Size(e) = 0 THEN Undefined(e)
    ELSE LET r == SameLevelLoop(e, Depth(e.heap, TopId(e)), <<>>)
         IN  PushNew(r.e, Branch(r.children))

\* mutant: the count is not popped before the nodes are taken
PackTopX_countTaken(e) ==
    Checked(e, RequireValueTop(e),
        LET c == ReadAs(e.heap[TopId(e)].Stored)
        IN  IF SizeLess(Size(e), c) THEN Throw(e, MsgTooFew, Critical)
            ELSE LET b == BranchFromStack(e, c) IN Push(b.e, b.id))

PackTopX(e) ==
    Checked(e, RequireValueTop(e),
        LET c == ReadAs(e.heap[TopId(e)].Stored)
            p == Pop(e)
        IN  IF SizeLess(Size(p), c) THEN Throw(p, MsgTooFew, Critical)
            ELSE LET b == BranchFromStack(p, c) IN Push(b.e, b.id))

EmptyBranch(e) == PushNew(e, Branch(<<>>))

EmptyElement(e) == PushNew(e, Value(<<>>))

\* Branches[c] is not bound-checked: undefined outside the vector
CopyFromIndex(e) ==
    Checked(e, RequireValueTop(e),
        LET c == ReadAs(e.heap[TopId(e)].Stored)
            p == Pop(e)
        IN  Checked(p, RequireBranchTop(p),
                IF c < 0 \/ c >= Len(p.heap[TopId(p)].Branches)
                THEN Undefined(p)
                ELSE PushCopy(p, p.heap[TopId(p)].Branches[c + 1])))

\* v[0] of an empty string is the terminating '\0'
Undot(e) ==
    Checked(e, RequireValueTop(e),
        LET v == e.heap[TopId(e)].Stored IN
        IF v # <<>> /\ v[1] = "."
        THEN [e EXCEPT !.heap[TopId(e)].Stored = Substr(v, 1, Len(v))]
        ELSE e)
\* `index < size()` with index an int: a negative index is converted to a
\* size_t above every size
IndexLess(index, size) == IF index < 0 THEN FALSE ELSE index < size

RECURSIVE ExtractLoop(_, _, _, _, _, _)
\* the while loop of ExtractColumnPack: br and cp are the two stacks (top
\* last), out the children of nbranch so far
ExtractLoop(h, br, cp, depth, index, out) ==
    IF Len(br) = 0 THEN [heap |-> h, out |-> out]
    ELSE LET top == h[br[Len(br)]].Branches
             c == cp[Len(cp)]
             brPop == SubSeq(br, 1, Len(br) - 1)
             cpPop == SubSeq(cp, 1, Len(cp) - 1)
         IN  IF c >= Len(top)
             THEN ExtractLoop(h, brPop, cpPop, depth, index, out)
             ELSE IF Len(br) = depth
             THEN IF IndexLess(index, Len(top))
                  THEN LET k == CopyNode(h, top[index + 1]) IN
                       ExtractLoop(k.heap, brPop, cpPop, depth, index,
                                   Append(out, k.id))
                  ELSE ExtractLoop(h, brPop, cpPop, depth, index, out)
             ELSE IF is_branch(h, top[c + 1])
             THEN ExtractLoop(h, Append(br, top[c + 1]),
                              Append([cp EXCEPT ![Len(cp)] = c + 1], 0),
                              depth, index, out)
             ELSE ExtractLoop(h, br, [cp EXCEPT ![Len(cp)] = c + 1],
                              depth, index, out)

\* the index is on top, the depth beneath it, the Branch beneath both
ExtractColumnPack(e) ==
    Checked(e, RequireValueTop(e),
        LET index == ReadAs(e.heap[TopId(e)].Stored)
            p == Pop(e)
        IN  Checked(p, RequireValueTop(p),
                LET depth == ReadAs(p.heap[TopId(p)].Stored)
                    q == Pop(p)
                IN  IF depth < 1 THEN Throw(q, MsgZeroDepth, Critical)
                    ELSE Checked(q, RequireBranchTop(q),
                        LET r == ExtractLoop(q.heap, <<TopId(q)>>, <<0>>,
                                             depth, index, <<>>)
                        IN  PushNew([q EXCEPT !.heap = r.heap],
                                    Branch(r.out)))))

RECURSIVE ExtractGroupedLoop(_, _, _, _, _, _)
\* the while loop of ExtractGroupedColumnPack: nbr is the stack of the
\* output Branches being filled, which are changed in place in the heap
ExtractGroupedLoop(h, br, nbr, cp, depth, index) ==
    IF Len(br) = 0 THEN h
    ELSE LET top == h[br[Len(br)]].Branches
             c == cp[Len(cp)]
             ntop == nbr[Len(nbr)]
             brPop == SubSeq(br, 1, Len(br) - 1)
             cpPop == SubSeq(cp, 1, Len(cp) - 1)
             nbrPop == SubSeq(nbr, 1, Len(nbr) - 1)
         IN  IF c >= Len(top)
             THEN ExtractGroupedLoop(h, brPop, nbrPop, cpPop, depth, index)
             ELSE IF Len(br) = depth
             THEN IF IndexLess(index, Len(top))
                  THEN LET k == CopyNode(h, top[index + 1]) IN
                       ExtractGroupedLoop(
                           [k.heap EXCEPT ![ntop].Branches = Append(@, k.id)],
                           brPop, nbrPop, cpPop, depth, index)
                  ELSE ExtractGroupedLoop(h, brPop, nbrPop, cpPop, depth, index)
             ELSE IF is_branch(h, top[c + 1])
             THEN LET b == Alloc(h, Branch(<<>>)) IN
                  ExtractGroupedLoop(
                      [b.heap EXCEPT ![ntop].Branches = Append(@, b.id)],
                      Append(br, top[c + 1]), Append(nbr, b.id),
                      Append([cp EXCEPT ![Len(cp)] = c + 1], 0), depth, index)
             ELSE ExtractGroupedLoop(h, br, nbr, [cp EXCEPT ![Len(cp)] = c + 1],
                                     depth, index)

ExtractGroupedColumnPack(e) ==
    Checked(e, RequireValueTop(e),
        LET index == ReadAs(e.heap[TopId(e)].Stored)
            p == Pop(e)
        IN  Checked(p, RequireValueTop(p),
                LET depth == ReadAs(p.heap[TopId(p)].Stored)
                    q == Pop(p)
                IN  IF depth < 1 THEN Throw(q, MsgZeroDepth, Critical)
                    ELSE Checked(q, RequireBranchTop(q),
                        LET nbranch == Alloc(q.heap, Branch(<<>>))
                            h2 == ExtractGroupedLoop(nbranch.heap, <<TopId(q)>>,
                                      <<nbranch.id>>, <<0>>, depth, index)
                        IN  Push([q EXCEPT !.heap = h2], nbranch.id))))

\* the swaps of Reverse: element i trades places with element size-1-i
Reversed(s) == [i \in 1 .. Len(s) |-> s[Len(s) + 1 - i]]

\* in place, on the node the top of the stack points to
Reverse(e) ==
    Checked(e, RequireTop(e, 1),
        IF is_value(e.heap, TopId(e))
        THEN [e EXCEPT !.heap[TopId(e)].Stored = Reversed(@)]
        ELSE [e EXCEPT !.heap[TopId(e)].Branches = Reversed(@)])

\* mutant: the pointer on top is pushed once more
Copy_samePointer(e) == Checked(e, RequireTop(e, 1), Push(e, TopId(e)))

Copy(e) == Checked(e, RequireTop(e, 1), PushCopy(e, TopId(e)))

RECURSIVE DuplicateLoop(_, _, _)
\* for (i = 1; i < c; i++) push(top()->Copy()): top() of an empty stack is
\* undefined
DuplicateLoop(e, i, c) ==
    IF ~(i < c) THEN e
    ELSE IF Size(e) = 0 THEN Undefined(e)
    ELSE DuplicateLoop(PushCopy(e, TopId(e)), i + 1, c)

Duplicate(e) ==
    Checked(e, RequireIntegerTop(e),
        DuplicateLoop(Pop(e), 1, ReadAs(e.heap[TopId(e)].Stored)))

\* mutant: the node on top is the one discarded
DeepRemove_top(e) ==
    Checked(e, RequireIntegerTop(e),
        LET c == ReadAs(e.heap[TopId(e)].Stored)
            p == Pop(e)
        IN  Checked(p, RequireTop(p, c + 1), Pop(p)))

\* the c nodes set aside in tmp return in their order; RequireTop(c + 1) has
\* made sure of c + 1 nodes
DeepRemove(e) ==
    Checked(e, RequireIntegerTop(e),
        LET c == ReadAs(e.heap[TopId(e)].Stored)
            p == Pop(e)
        IN  Checked(p, RequireTop(p, c + 1),
                LET n == Size(p) IN
                [p EXCEPT !.Data = SubSeq(p.Data, 1, n - c - 1)
                                   \o SubSeq(p.Data, n - c + 1, n)]))

RECURSIVE SplitLoop(_, _, _, _, _)
\* the while loop of SplitRow and the push after it; np already has npos
\* replaced by value.size()
SplitLoop(value, split, p, np, segments) ==
    IF np # Len(value)
    THEN LET p2 == np + Len(split)
             f == Find(value, split, p2)
         IN  SplitLoop(value, split, p2, IF f = npos THEN Len(value) ELSE f,
                       Append(segments, Substr(value, p, np - p)))
    ELSE Append(segments, Substr(value, p, np - p))

RECURSIVE PushValues(_, _)
\* make_shared<Value> for every segment, in order
PushValues(h, rows) ==
    IF rows = <<>> THEN [heap |-> h, ids |-> <<>>]
    ELSE LET a == Alloc(h, Value(rows[1]))
             r == PushValues(a.heap, Tail(rows))
         IN  [heap |-> r.heap, ids |-> <<a.id>> \o r.ids]

Segments(value, split) ==
    LET f == Find(value, split, 0)
    IN  SplitLoop(value, split, 0, IF f = npos THEN Len(value) ELSE f, <<>>)

\* the separator is checked before it is popped
SplitRow(e) ==
    Checked(e, RequireValueTop(e),
        LET split == e.heap[TopId(e)].Stored IN
        IF Len(split) = 0 THEN Throw(e, MsgEmptySplit, Critical)
        ELSE LET p == Pop(e) IN
             Checked(p, RequireValueTop(p),
                LET value == p.heap[TopId(p)].Stored
                    q == Pop(p)
                    r == PushValues(q.heap, Segments(value, split))
                IN  PushNew([q EXCEPT !.heap = r.heap], Branch(r.ids))))

\* mutant: the separator is written before every Value, the first included
ConcatLoop_everySeparator(h, ids, space, f, str) ==
    IF ids = <<>> THEN str ELSE space \o h[ids[1]].Stored

RECURSIVE ConcatLoop(_, _, _, _, _)
\* the for loop of ConcatRow: f is set by the first Value child
ConcatLoop(h, ids, space, f, str) ==
    IF ids = <<>> THEN str
    ELSE IF Depth(h, ids[1]) = 0
    THEN ConcatLoop(h, Tail(ids), space, TRUE,
                    (IF ~f THEN str ELSE str \o space) \o h[ids[1]].Stored)
    ELSE ConcatLoop(h, Tail(ids), space, f, str)

ConcatRow(e) ==
    Checked(e, RequireValueTop(e),
        LET space == e.heap[TopId(e)].Stored
            p == Pop(e)
        IN  Checked(p, RequireBranchTop(p),
                LET br == TopId(p)
                    q == Pop(p)
                IN  PushNew(q, Value(ConcatLoop(q.heap, q.heap[br].Branches,
                                                space, FALSE, <<>>)))))

\* the "#" lambda: Data.pop(), undefined on an empty stack
PopTop(e) == IF Size(e) = 0 THEN Undefined(e) ELSE Pop(e)
(* ------------------------- registry and dispatch ---------------------- *)
\* the registry after LoadDefault; a std::set ordered and compared by Name
Functions ==
    { [Func |-> "PackTop", Name |-> <<"^", "t">>],
      [Func |-> "PackTopSameLevel", Name |-> <<"^">>],
      [Func |-> "UnpackTop", Name |-> <<"^", "_", "t">>],
      [Func |-> "PackTopX", Name |-> <<"^", "t", "c">>],
      [Func |-> "EmptyBranch", Name |-> <<"|", "E", "b">>],
      [Func |-> "EmptyElement", Name |-> <<"|", "E", "v">>],
      [Func |-> "CopyFromIndex", Name |-> <<"|", "i">>],
      [Func |-> "ExtractColumnPack", Name |-> <<"|", "i", "d">>],
      [Func |-> "CopyFromIndex", Name |-> <<"|", "[">>],
      [Func |-> "ExtractColumnPack", Name |-> <<"|", "]">>],
      [Func |-> "ExtractGroupedColumnPack", Name |-> <<"|", "]", "g">>],
      [Func |-> "Copy", Name |-> <<"|">>],
      [Func |-> "Duplicate", Name |-> <<"|", "c">>],
      [Func |-> "PopTop", Name |-> <<"#">>],
      [Func |-> "DeepRemove", Name |-> <<"#", "d">>],
      [Func |-> "Undot", Name |-> <<"$">>],
      [Func |-> "ConcatRow", Name |-> <<"$", "^">>],
      [Func |-> "SplitRow", Name |-> <<"$", "_">>],
      [Func |-> "Reverse", Name |-> <<"_">>] }

Registered == {f.Name : f \in Functions}

\* it->Func(this)
Invoke(Func, e) ==
    CASE Func = "PackTop" -> PackTop(e)
      [] Func = "PackTopSameLevel" -> PackTopSameLevel(e)
      [] Func = "UnpackTop" -> UnpackTop(e)
      [] Func = "PackTopX" -> PackTopX(e)
      [] Func = "EmptyBranch" -> EmptyBranch(e)
      [] Func = "EmptyElement" -> EmptyElement(e)
      [] Func = "CopyFromIndex" -> CopyFromIndex(e)
      [] Func = "ExtractColumnPack" -> ExtractColumnPack(e)
      [] Func = "ExtractGroupedColumnPack" -> ExtractGroupedColumnPack(e)
      [] Func = "Copy" -> Copy(e)
      [] Func = "Duplicate" -> Duplicate(e)
      [] Func = "PopTop" -> PopTop(e)
      [] Func = "DeepRemove" -> DeepRemove(e)
      [] Func = "Undot" -> Undot(e)
      [] Func = "ConcatRow" -> ConcatRow(e)
      [] Func = "SplitRow" -> SplitRow(e)
      [] Func = "Reverse" -> Reverse(e)

\* the try block of EvalCom
TryCom(e, com) ==
    IF Len(com) < 1 THEN e
    ELSE IF com \notin Registered THEN PushNew(e, Value(com))
    ELSE Invoke((CHOOSE f \in Functions : f.Name = com).Func, e)

\* str << exception->what() << "\nCaused during invoking:" << com
ComLog(exception, com) ==
    exception.what_ \o <<"\nCaused during invoking:">> \o com

\* what EvalCom leaves: the evaluator, raised (the exception the try block
\* threw, NoExc if none), thrown (the exception that leaves EvalCom, NoExc
\* if it returns) and ub
Outcome(E, r, log, thrown) ==
    [heap |-> r.heap, Data |-> r.Data, Log |-> log,
     ApprovedLevel |-> E.ApprovedLevel, raised |-> r.exc, thrown |-> thrown,
     ub |-> r.ub]

\* mutant: the catch block writes no Log entry
Catch_silent(E, com, log, catch_localy, r) ==
    IF r.ub \/ r.exc = NoExc THEN Outcome(E, r, E.Log, NoExc)
    ELSE IF ~catch_localy THEN Outcome(E, r, E.Log, r.exc)
    ELSE Outcome(E, r, E.Log,
                 IF ErrorLevel(r.exc) > E.ApprovedLevel THEN r.exc ELSE NoExc)

\* the catch block of EvalCom, r being what the try block left
Catch(E, com, log, catch_localy, r) ==
    IF r.ub \/ r.exc = NoExc THEN Outcome(E, r, E.Log, NoExc)
    ELSE IF ~catch_localy THEN Outcome(E, r, E.Log, r.exc)
    ELSE Outcome(E, r,
                 IF log THEN Append(E.Log, ComLog(r.exc, com)) ELSE E.Log,
                 IF ErrorLevel(r.exc) > E.ApprovedLevel THEN r.exc ELSE NoExc)

\* the stacks of E as an operation finds them
Operand(E) == [heap |-> E.heap, Data |-> E.Data, exc |-> NoExc, ub |-> FALSE]

\* EvalCom on the evaluator E = [heap, Data, Log, ApprovedLevel]
EvalCom(E, com, log, catch_localy) ==
    Catch(E, com, log, catch_localy, TryCom(Operand(E), com))

(* ---------------------- shared ownership of nodes --------------------- *)
RECURSIVE Reach(_, _, _)
\* the nodes owned, directly or through Branches, by the pointers in todo,
\* each once, in depth-first order
Reach(h, todo, seen) ==
    IF todo = <<>> THEN seen
    ELSE IF \E i \in 1 .. Len(seen) : seen[i] = todo[1]
    THEN Reach(h, Tail(todo), seen)
    ELSE Reach(h, (IF IsValueNode(h[todo[1]]) THEN <<>> ELSE h[todo[1]].Branches)
                  \o Tail(todo), Append(seen, todo[1]))

\* a node no shared pointer owns any more is destroyed; the nodes left are
\* numbered in the order Reach finds them (an identity is only ever compared)
Owned(h, data) ==
    LET live == Reach(h, data, <<>>)
        new(id) == CHOOSE i \in 1 .. Len(live) : live[i] = id
        move(n) == IF IsValueNode(n) THEN n
                   ELSE Branch([i \in 1 .. Len(n.Branches) |-> new(n.Branches[i])])
    IN  [heap |-> [i \in 1 .. Len(live) |-> move(h[live[i]])],
         Data |-> [i \in 1 .. Len(data) |-> new(data[i])]]

(* ------------------------------ the state ----------------------------- *)
(* heap, Data, Log: the nodes, the Data stack and the Log stack (top last). *)
(* ApprovedLevel is the set of values a read of the field may give: the     *)
(* constructor leaves it uninitialised, an assignment makes it one value.   *)
(* run is "ok" until undefined behaviour is executed.  call describes the   *)
(* last call made on the evaluator and how it ended.  coms, idx and evald   *)
(* are the batch EvalComs is working on, its loop variable i (counted from  *)
(* 1, 0 when no batch runs) and the tokens it has handed to EvalCom.  snap  *)
(* is what a run started from, phase the number of steps it has made.       *)
NoCall == [op |-> "none", com |-> <<>>, raised |-> NoExc, thrown |-> NoExc]

\* `Evaluator ev{}; ev.LoadDefault();`: empty stacks, ApprovedLevel not set
Init ==
    /\ heap = <<>>
    /\ Data = <<>>
    /\ Log = <<>>
    /\ ApprovedLevel = IndeterminateLevels
    /\ run = "ok"
    /\ call = NoCall
    /\ coms = <<>>
    /\ idx = 0
    /\ evald = <<>>
    /\ snap = <<>>
    /\ phase = 0

\* the evaluator after construction, for a caller that absorbs every error
Evaluator0 ==
    [heap |-> <<>>, Data |-> <<>>, Log |-> <<>>, ApprovedLevel |-> Fatal]

\* the evaluator as a call finds it; level is what ApprovedLevel reads as
Evaluator(level) ==
    [heap |-> heap, Data |-> Data, Log |-> Log, ApprovedLevel |-> level]

\* the evaluator after a call that came back (returned or threw)
Settle(r) ==
    /\ heap' = Owned(r.heap, r.Data).heap
    /\ Data' = Owned(r.heap, r.Data).Data
    /\ Log' = r.Log
    /\ run' = run

\* undefined behaviour: the process dies, or goes on with its memory in a
\* state the language does not define
Lost ==
    /\ run' \in {"crashed", "undefined"}
    /\ UNCHANGED <<heap, Data, Log>>

\* ApprovedLevel is read only in the catch block, in `ErrorLevel() >
\* ApprovedLevel`: one of its values for each outcome of that comparison
Reads(exc) ==
    IF exc = NoExc THEN {CHOOSE level \in ApprovedLevel : TRUE}
    ELSE {level \in ApprovedLevel :
            \A other \in ApprovedLevel :
               (ErrorLevel(exc) > other) = (ErrorLevel(exc) > level)
                  => level <= other}

\* what a call leaves of the evaluator
Effect(r) == IF r.ub THEN Lost ELSE Settle(r)

\* a call that came back, on record
Returned(com, r) ==
    /\ call' = [op |-> "EvalCom", com |-> com, raised |-> r.raised,
                thrown |-> r.thrown]
    /\ Effect(r)

\* one call ev.EvalCom(com, log) from outside
Call(com, log) ==
    /\ run = "ok"
    /\ idx = 0
    /\ \E level \in Reads(TryCom(Operand(Evaluator(Fatal)), com).exc) :
         Returned(com, EvalCom(Evaluator(level), com, log, TRUE))
    /\ UNCHANGED <<ApprovedLevel, coms, idx, evald>>

\* the caller assigns the public field
SetApprovedLevel(level) ==
    /\ run = "ok"
    /\ idx = 0
    /\ ApprovedLevel' = {level}
    /\ call' = [NoCall EXCEPT !.op = "SetApprovedLevel"]
    /\ UNCHANGED <<heap, Data, Log, run, coms, idx, evald, snap, phase>>

(* ------------------------- the unrestricted runs ---------------------- *)
RECURSIVE Chars(_)
\* the characters stored in the nodes of h
Chars(h) ==
    IF h = <<>> THEN 0
    ELSE (IF IsValueNode(h[1]) THEN Len(h[1].Stored) ELSE 0) + Chars(Tail(h))

\* the tokens of the operations that push a copy of a node
Copying ==
    { <<"^", "_", "t">>, <<"|">>, <<"|", "c">>, <<"|", "i">>, <<"|", "[">>,
      <<"|", "i", "d">>, <<"|", "]">>, <<"|", "]", "g">> }

\* the unrestricted runs keep on record only that the last call was an
\* operation of Copying that returned
Noted(com, r) ==
    /\ call' = IF com \in Copying /\ r.raised = NoExc /\ ~r.ub
               THEN [NoCall EXCEPT !.op = "EvalCom", !.com = com]
               ELSE NoCall
    /\ Effect(r)

\* a call ev.EvalCom(com, false) of the unrestricted runs: any token, as long
\* as the evaluator stays small
EvaluateOne(com) ==
    /\ run = "ok"
    /\ idx = 0
    /\ \E level \in Reads(TryCom(Operand(Evaluator(Fatal)), com).exc) :
         Noted(com, EvalCom(Evaluator(level), com, FALSE, TRUE))
    /\ Len(heap') + Chars(heap') <= MaxSize
    /\ UNCHANGED <<ApprovedLevel, coms, idx, evald, snap, phase>>

Literals == { <<"0">>, <<"1">>, <<"2">> }

\* every token of the registry, the literals and the empty token
Next ==
    \/ \E com \in Literals : EvaluateOne(com)
    \/ EvaluateOne(<<>>)
    \/ EvaluateOne(<<"^", "t">>)
    \/ EvaluateOne(<<"^">>)
    \/ EvaluateOne(<<"^", "_", "t">>)
    \/ EvaluateOne(<<"^", "t", "c">>)
    \/ EvaluateOne(<<"|", "E", "b">>)
    \/ EvaluateOne(<<"|", "E", "v">>)
    \/ EvaluateOne(<<"|", "i">>)
    \/ EvaluateOne(<<"|", "i", "d">>)
    \/ EvaluateOne(<<"|", "[">>)
    \/ EvaluateOne(<<"|", "]">>)
    \/ EvaluateOne(<<"|", "]", "g">>)
    \/ EvaluateOne(<<"|">>)
    \/ EvaluateOne(<<"|", "c">>)
    \/ EvaluateOne(<<"#">>)
    \/ EvaluateOne(<<"#", "d">>)
    \/ EvaluateOne(<<"$">>)
    \/ EvaluateOne(<<"$", "^">>)
    \/ EvaluateOne(<<"$", "_">>)
    \/ EvaluateOne(<<"_">>)

Spec == Init /\ [][Next]_vars

(* ------------------- one operation on a prepared stack ---------------- *)
Tokens == Registered \cup { <<>>, <<"0">>, <<"1">>, <<"2">>, <<"x">> }

BuildTokens == { <<"x">>, <<"1">>, <<"2">>, <<"^", "t">> }

Scripts == UNION { [1 .. n -> BuildTokens] : n \in 0 .. MaxScript }

RECURSIVE RunScript(_, _)
\* the evaluator after ev.EvalCom(com) for every token of the script, the
\* caller catching what is thrown; no token of a script is undefined
RunScript(E, script) ==
    IF script = <<>> THEN E
    ELSE RunScript(EvalCom(E, script[1], TRUE, TRUE), Tail(script))

\* a fresh evaluator that has evaluated a script
Prepared(script) ==
    /\ heap = Owned(RunScript(Evaluator0, script).heap,
                    RunScript(Evaluator0, script).Data).heap
    /\ Data = Owned(RunScript(Evaluator0, script).heap,
                    RunScript(Evaluator0, script).Data).Data
    /\ Log = RunScript(Evaluator0, script).Log
    /\ ApprovedLevel = IndeterminateLevels
    /\ run = "ok"
    /\ call = NoCall
    /\ coms = <<>>
    /\ idx = 0
    /\ evald = <<>>
    /\ phase = 0

InitStep == \E script \in Scripts : Prepared(script) /\ snap = <<>>

\* the one call ev.EvalCom(com) made on the prepared stack
Step(com) ==
    /\ phase = 0
    /\ Call(com, TRUE)
    /\ phase' = 1
    /\ UNCHANGED snap

NextStep == \E com \in Tokens : Step(com)

SpecStep == InitStep /\ [][NextStep]_vars

(* --------------------------- the stack by value ------------------------ *)
RECURSIVE TreeOf(_, _)
\* the tree under node id, without the identities of its nodes
TreeOf(h, id) ==
    IF IsValueNode(h[id]) THEN [leaf |-> h[id].Stored]
    ELSE [children |-> [i \in 1 .. Len(h[id].Branches) |->
                            TreeOf(h, h[id].Branches[i])]]

\* the Data stack by value, top last
Trees(h, data) == [i \in 1 .. Len(data) |-> TreeOf(h, data[i])]

(* ------------------- PackTopX, then UnpackTop: the run ----------------- *)
\* a prepared stack and a count of nodes to pack, from none to all
InitPack ==
    \E script \in Scripts :
        /\ Prepared(script)
        /\ \E c \in 0 .. Len(Data) :
              snap = [stack |-> Trees(heap, Data), count |-> c]

\* the count is pushed as a literal token
PushCount ==
    /\ phase = 0
    /\ Call(<<Digits[snap.count + 1]>>, TRUE)
    /\ phase' = 1
    /\ UNCHANGED snap

PackCount ==
    /\ phase = 1
    /\ Call(<<"^", "t", "c">>, TRUE)
    /\ phase' = 2
    /\ UNCHANGED snap

UnpackPacked ==
    /\ phase = 2
    /\ Call(<<"^", "_", "t">>, TRUE)
    /\ phase' = 3
    /\ UNCHANGED snap

NextPack ==
    \/ PushCount
    \/ PackCount
    \/ UnpackPacked

SpecPack == InitPack /\ [][NextPack]_vars

(* ------------------- SplitRow, then ConcatRow: the run ----------------- *)
RowChars == {"a", "b"}

Rows(n) == UNION { [1 .. k -> RowChars] : k \in 0 .. n }

\* the token that leaves a Value with the text src on the stack
Source(src) == IF src = <<>> THEN <<"|", "E", "v">> ELSE src

InitRow ==
    \E src \in Rows(MaxSrc), sep \in Rows(MaxSep) \ {<<>>} :
        /\ Prepared(<<Source(src)>>)
        /\ snap = [src |-> src, sep |-> sep]

\* the separator is pushed as a literal token
PushSep ==
    /\ phase \in {0, 2}
    /\ Call(snap.sep, TRUE)
    /\ phase' = phase + 1
    /\ UNCHANGED snap

Split ==
    /\ phase = 1
    /\ Call(<<"$", "_">>, TRUE)
    /\ phase' = 2
    /\ UNCHANGED snap

Concat ==
    /\ phase = 3
    /\ Call(<<"$", "^">>, TRUE)
    /\ phase' = 4
    /\ UNCHANGED snap

NextRow == PushSep \/ Split \/ Concat

SpecRow == InitRow /\ [][NextRow]_vars

(* ------------------------- the severity gate -------------------------- *)
GateTokens ==
    { <<"0">>, <<"|", "E", "v">>, <<"^", "t">>, <<"^", "_", "t">>,
      <<"|", "c">>, <<"$", "_">>, <<"|", "]">> }

\* the caller sets the threshold
Approve(level) ==
    /\ ApprovedLevel # {level}
    /\ SetApprovedLevel(level)

Try(com) ==
    /\ phase < MaxCalls
    /\ Call(com, TRUE)
    /\ phase' = phase + 1
    /\ UNCHANGED snap

NextGate ==
    \/ \E level \in Levels : Approve(level)
    \/ \E com \in GateTokens : Try(com)

SpecGate == Init /\ [][NextGate]_vars

(* ------------------------------ EvalComs ------------------------------ *)
RECURSIVE TraceLoop(_, _, _)
\* for (j = 0; j < i + 1; j++) str << "\t" << coms[i] << "\n"; here j is the
\* number of rounds still to go
TraceLoop(batch, i, j) ==
    IF j = 0 THEN <<>>
    ELSE <<"\t">> \o batch[i] \o <<"\n">> \o TraceLoop(batch, i, j - 1)

\* the Log entry of EvalComs for the exception of coms[i], i counted from 1
ComsLog(exception, batch, i) ==
    exception.what_ \o <<"\nCaused during invoking:">> \o batch[i]
        \o <<"\nCom trace:">> \o TraceLoop(batch, i, i)

\* ev.EvalComs(batch) is called: i = 0, the loop is entered or not
EvalComs(batch) ==
    /\ run = "ok"
    /\ idx = 0
    /\ phase = 0
    /\ coms' = batch
    /\ evald' = <<>>
    /\ idx' = IF batch = <<>> THEN 0 ELSE 1
    /\ phase' = IF batch = <<>> THEN 2 ELSE 1
    /\ call' = [NoCall EXCEPT !.op = "EvalComs"]
    /\ UNCHANGED <<heap, Data, Log, ApprovedLevel, run, snap>>

\* mutant: the loop goes on after an exception it has thrown on
Advance_goesOn(thrown) == IF idx = Len(coms) THEN 0 ELSE idx + 1

\* i after the round: the loop is left by the throw or at the batch's end
Advance(thrown) ==
    IF thrown # NoExc \/ idx = Len(coms) THEN 0 ELSE idx + 1

\* the catch block of EvalComs for what EvalCom(coms[i], false, false) left
Round(r, level, thrown) ==
    /\ evald' = Append(evald, coms[idx])
    /\ call' = [op |-> "EvalComs", com |-> coms[idx], raised |-> r.thrown,
                thrown |-> thrown]
    /\ IF r.ub THEN Lost
       ELSE /\ heap' = Owned(r.heap, r.Data).heap
            /\ Data' = Owned(r.heap, r.Data).Data
            /\ Log' = IF r.thrown = NoExc THEN Log
                      ELSE Append(Log, ComsLog(r.thrown, coms, idx))
            /\ run' = run
    /\ idx' = IF r.ub THEN 0 ELSE Advance(thrown)
    /\ phase' = IF idx' = 0 THEN 2 ELSE 1

\* the exception that leaves EvalComs, if any
Rethrown(exc, level) ==
    IF exc # NoExc /\ ErrorLevel(exc) > level THEN exc ELSE NoExc

\* one round of the for loop of EvalComs
EvalComsRound ==
    /\ run = "ok"
    /\ idx > 0
    /\ \E level \in Reads(TryCom(Operand(Evaluator(Fatal)), coms[idx]).exc) :
         Round(EvalCom(Evaluator(level), coms[idx], FALSE, FALSE), level,
               Rethrown(TryCom(Operand(Evaluator(Fatal)), coms[idx]).exc, level))
    /\ UNCHANGED <<ApprovedLevel, coms, snap>>

BatchTokens == { <<"x">>, <<"^", "t">>, <<"^", "_", "t">> }

Batches == UNION { [1 .. n -> BatchTokens] : n \in 0 .. MaxBatch }

NextBatch ==
    \/ \E level \in Levels : phase = 0 /\ Approve(level)
    \/ \E batch \in Batches : EvalComs(batch)
    \/ EvalComsRound

SpecBatch == Init /\ [][NextBatch]_vars
(* ---------------------- RequireInteger on one node -------------------- *)
TextChars == {"0", "9", "-", "+", ".", " ", "a"}

\* texts of one repeated digit, with or without one other character in them
Texts ==
    { [i \in 1 .. n |-> IF i = k THEN c ELSE d] :
         n \in 0 .. MaxText, k \in 0 .. MaxText, c \in TextChars,
         d \in {"0", "9"} }

\* a stack of one node: a Value with one of the texts, or a Branch
InitInteger ==
    /\ \/ \E text \in Texts : Prepared(<<Source(text)>>)
       \/ Prepared(<< <<"|", "E", "b">> >>)
       \/ Prepared(<< <<"0">>, <<"^", "t">> >>)
    /\ snap = <<>>

\* a caller hands the node on top to the static Evaluator::RequireInteger
CallRequireInteger ==
    /\ phase = 0
    /\ run = "ok"
    /\ Data # <<>>
    /\ call' = [op |-> "RequireInteger", com |-> <<>>,
                raised |-> RequireInteger(heap, Data[Len(Data)]),
                thrown |-> RequireInteger(heap, Data[Len(Data)])]
    /\ phase' = 1
    /\ UNCHANGED <<heap, Data, Log, ApprovedLevel, run, coms, idx, evald, snap>>

NextInteger == CallRequireInteger

SpecInteger == InitInteger /\ [][NextInteger]_vars
(* ---------------- Copy, then changes made in place: the run ------------ *)
CopyTokens == { <<".", "a">>, <<"1">>, <<"^", "t">>, <<"^">> }

\* scripts that begin with a literal, so that no token finds the stack empty
CopyScripts ==
    { script \in UNION { [1 .. n -> CopyTokens] : n \in 1 .. MaxScript } :
         script[1] \in { <<".", "a">>, <<"1">> } }

\* snap.top tells which of the two nodes is on top once Copy was called
InitCopy ==
    \E script \in CopyScripts :
        /\ Prepared(script)
        /\ snap = [top |-> "clone"]

CopyTop ==
    /\ phase = 0
    /\ Call(<<"|">>, TRUE)
    /\ phase' = 1
    /\ UNCHANGED snap

\* Reverse or Undot, on the node on top
Mutate(com) ==
    /\ phase \in 1 .. MaxMutations
    /\ Call(com, TRUE)
    /\ phase' = phase + 1
    /\ UNCHANGED snap

\* the stack after its two pointers on top were popped and pushed back the
\* other way round
Exchanged(data) ==
    [data EXCEPT ![Len(data)] = data[Len(data) - 1],
                 ![Len(data) - 1] = data[Len(data)]]

\* the caller, through the public Data, exchanges the two nodes on top
Exchange ==
    /\ phase \in 1 .. MaxMutations
    /\ run = "ok"
    /\ idx = 0
    /\ Len(Data) >= 2
    /\ heap' = Owned(heap, Exchanged(Data)).heap
    /\ Data' = Owned(heap, Exchanged(Data)).Data
    /\ snap' = [top |-> IF snap.top = "clone" THEN "original" ELSE "clone"]
    /\ call' = [NoCall EXCEPT !.op = "Exchange"]
    /\ phase' = phase + 1
    /\ UNCHANGED <<Log, ApprovedLevel, run, coms, idx, evald>>

NextCopy ==
    \/ CopyTop
    \/ Mutate(<<"_">>)
    \/ Mutate(<<"$">>)
    \/ Exchange

SpecCopy == InitCopy /\ [][NextCopy]_vars
(* ----------------- the Log over single calls and batches --------------- *)
\* lines read before: the Log empty or not, the stack empty, a Value, a Branch
LogScripts ==
    { <<>>, << <<"^", "t">> >>, << <<"x">> >>, << <<"x">>, <<"^", "t">> >>,
      << <<"^", "t">>, <<"x">> >> }

\* snap.log is the argument log of the last call of EvalCom from outside
InitLog ==
    \E script \in LogScripts :
        /\ Prepared(script)
        /\ snap = [log |-> TRUE]

\* ev.EvalCom(com, log), before a batch or after it
Say(com, log) ==
    /\ phase \in {0, 2}
    /\ Call(com, log)
    /\ phase' = phase + 1
    /\ snap' = [log |-> log]

NextLog ==
    \/ \E level \in Levels : phase = 0 /\ Approve(level)
    \/ \E com \in BatchTokens \cup {<<>>} : Say(com, TRUE)
    \/ \E com \in BatchTokens \cup {<<>>} : Say(com, FALSE)
    \/ \E batch \in Batches : EvalComs(batch)
    \/ EvalComsRound

SpecLog == InitLog /\ [][NextLog]_vars
(* ------------------------ BranchStream, PrintData ---------------------- *)
Space == "\t"
Section == "./section"
ValueEnd == "\n"

\* for (i = 0; i < depth_; i++) out_ << Space
Indent(depth_) == [i \in 1 .. depth_ |-> Space]

RECURSIVE Stream(_, _, _)
RECURSIVE StreamAll(_, _, _)
\* for (auto i : branch->Branches) *this << i
StreamAll(h, ids, depth_) ==
    IF ids = <<>> THEN <<>>
    ELSE Stream(h, ids[1], depth_) \o StreamAll(h, Tail(ids), depth_)

\* BranchStream::operator<<: what is written for the node id at depth_
Stream(h, id, depth_) ==
    IF Depth(h, id) = 0
    THEN Indent(depth_) \o h[id].Stored \o <<ValueEnd>>
    ELSE Indent(depth_) \o <<Section, ValueEnd>>
            \o StreamAll(h, h[id].Branches, depth_ + 1)

RECURSIVE PrintDrain(_, _, _, _)
\* the first loop of PrintData: the top goes to tmp and is written
PrintDrain(h, data, tmp, out) ==
    IF data = <<>> THEN [tmp |-> tmp, out |-> out]
    ELSE PrintDrain(h, SubSeq(data, 1, Len(data) - 1),
                    Append(tmp, data[Len(data)]),
                    out \o Stream(h, data[Len(data)], 0))

\* mutant: tmp is emptied from its bottom
PrintRestore_bottomFirst(data, tmp) == tmp

RECURSIVE PrintRestore(_, _)
\* the second loop of PrintData: the top of tmp goes back to Data
PrintRestore(data, tmp) ==
    IF tmp = <<>> THEN data
    ELSE PrintRestore(Append(data, tmp[Len(tmp)]), SubSeq(tmp, 1, Len(tmp) - 1))

\* ev.PrintData(out): snap.out is what was written to out, snap.visited the
\* pointers handed to the stream, in their order
PrintData ==
    /\ phase = 0
    /\ run = "ok"
    /\ idx = 0
    /\ Data' = PrintRestore(<<>>, PrintDrain(heap, Data, <<>>, <<>>).tmp)
    /\ snap' = [out |-> PrintDrain(heap, Data, <<>>, <<>>).out,
                visited |-> PrintDrain(heap, Data, <<>>, <<>>).tmp]
    /\ call' = [NoCall EXCEPT !.op = "PrintData"]
    /\ phase' = 1
    /\ UNCHANGED <<heap, Log, ApprovedLevel, run, coms, idx, evald>>

InitPrint ==
    \E script \in Scripts :
        /\ Prepared(script)
        /\ snap = [out |-> <<>>, visited |-> <<>>]

NextPrint == PrintData

SpecPrint == InitPrint /\ [][NextPrint]_vars
(* ------------------------ Require on a prepared stack ------------------ *)
Opcodes == {"b", "v", "i", "e", ".", "x"}

\* the pattern vbv.v and every short text over the opcodes and one other
\* character
Patterns ==
    UNION { [1 .. n -> Opcodes] : n \in 0 .. MaxPattern }
       \cup { <<"v", "b", "v", ".", "v">> }

\* the lines that leave on top: a Value, an empty Branch, the Branches of x,
\* of x and 1, of x, 1 and 2, and of x, a Branch of 1, and 2
RequireScripts ==
    { << <<"x">> >>,
      << <<"|", "E", "b">> >>,
      << <<"x">>, <<"^", "t">> >>,
      << <<"x">>, <<"1">>, <<"2">>, <<"^", "t", "c">> >>,
      << <<"x">>, <<"1">>, <<"2">>, <<"3">>, <<"^", "t", "c">> >>,
      << <<"x">>, <<"1">>, <<"^", "t">>, <<"2">>, <<"3">>, <<"^", "t", "c">> >> }

InitRequire ==
    \E script \in RequireScripts, request \in Patterns :
        /\ Prepared(script)
        /\ snap = [request |-> request]

\* what Require leaves of the evaluator: it reads the tree only
Required(r) ==
    /\ call' = [op |-> "Require", com |-> snap.request, raised |-> r.exc,
                thrown |-> r.exc]
    /\ IF r.ub THEN Lost ELSE UNCHANGED <<heap, Data, Log, run>>

\* a caller hands the pattern and the node on top to the static
\* Evaluator::Require
CallRequire ==
    /\ phase = 0
    /\ run = "ok"
    /\ Data # <<>>
    /\ Required(Require(snap.request, heap, Data[Len(Data)]))
    /\ phase' = 1
    /\ UNCHANGED <<ApprovedLevel, coms, idx, evald, snap>>

NextRequire == CallRequire

SpecRequire == InitRequire /\ [][NextRequire]_vars
(* ------------------- the column extractions: the run ------------------- *)
\* the lines that leave one node: a Value, and the Branches
\*   (), (x), ((x)), ((x 1)), ((x 1) 2 () ((1)))
ColumnScripts ==
    { << <<"x">> >>,
      << <<"|", "E", "b">> >>,
      << <<"x">>, <<"^", "t">> >>,
      << <<"x">>, <<"^", "t">>, <<"^", "t">> >>,
      << <<"x">>, <<"1">>, <<"2">>, <<"^", "t", "c">>, <<"^", "t">> >>,
      << <<"x">>, <<"1">>, <<"2">>, <<"^", "t", "c">>, <<"2">>,
         <<"|", "E", "b">>, <<"1">>, <<"^", "t">>, <<"^", "t">>, <<"4">>,
         <<"^", "t", "c">> >> }

\* snap holds the node the extraction is to read and its two arguments
InitColumn ==
    \E script \in ColumnScripts, d \in 0 .. MaxColumnDepth,
       i \in 0 .. MaxColumnIndex :
        /\ Prepared(script)
        /\ snap = [root |-> TreeOf(heap, Data[1]), depth |-> d, index |-> i]

\* the depth is pushed as a literal token
PushDepth ==
    /\ phase = 0
    /\ Call(<<Digits[snap.depth + 1]>>, TRUE)
    /\ phase' = 1
    /\ UNCHANGED snap

\* the index is pushed above it
PushIndex ==
    /\ phase = 1
    /\ Call(<<Digits[snap.index + 1]>>, TRUE)
    /\ phase' = 2
    /\ UNCHANGED snap

ExtractFlat ==
    /\ phase = 2
    /\ Call(<<"|", "]">>, TRUE)
    /\ phase' = 3
    /\ UNCHANGED snap

ExtractGrouped ==
    /\ phase = 2
    /\ Call(<<"|", "]", "g">>, TRUE)
    /\ phase' = 3
    /\ UNCHANGED snap

NextColumn ==
    \/ PushDepth
    \/ PushIndex
    \/ ExtractFlat
    \/ ExtractGrouped

SpecColumn == InitColumn /\ [][NextColumn]_vars
(* --------------- DeepRemove and Duplicate with a count: the run -------- *)
\* a prepared stack and a count, from none to one more than its nodes
InitCount ==
    \E script \in Scripts :
        /\ Prepared(script)
        /\ \E c \in 0 .. Len(Data) + 1 :
              snap = [stack |-> Trees(heap, Data), count |-> c]

RemoveDeep ==
    /\ phase = 1
    /\ Call(<<"#", "d">>, TRUE)
    /\ phase' = 2
    /\ UNCHANGED snap

DuplicateTop ==
    /\ phase = 1
    /\ Call(<<"|", "c">>, TRUE)
    /\ phase' = 2
    /\ UNCHANGED snap

NextCount ==
    \/ PushCount
    \/ RemoveDeep
    \/ DuplicateTop

SpecCount == InitCount /\ [][NextCount]_vars
(* ============================== the claims ============================ *)
\* the message of the exception ThrowWraped wrapped
Kind(exc) == IF exc = NoExc THEN "" ELSE exc.base_.what_[1]

MissingArgument(exc) == Kind(exc) = MsgMissing

InvalidInteger(exc) == Kind(exc) \in {MsgTooLarge, MsgEmptyNumber, MsgNotNumber}

\* the step of SpecStep that is being taken evaluates com
Stepped(com) == phase = 0 /\ phase' = 1 /\ call'.com = com

RECURSIVE Pointers(_)
\* every shared pointer the Branches of h hold
Pointers(h) ==
    IF h = <<>> THEN <<>>
    ELSE (IF IsValueNode(h[1]) THEN <<>> ELSE h[1].Branches) \o Pointers(Tail(h))

\* C1: after any sequence of calls over literal and registered tokens, calls
\* that end in an error included, no node is pointed to twice, be it from two
\* slots of the Data stack, from two Branches, or from a slot and a Branch:
\* what UnpackTop, Copy, Duplicate, CopyFromIndex, ExtractColumnPack and
\* ExtractGroupedColumnPack push is a fresh copy.
C1_NoSharing ==
    run = "ok" =>
        \A i, j \in 1 .. Len(Data \o Pointers(heap)) :
            (Data \o Pointers(heap))[i] = (Data \o Pointers(heap))[j] => i = j

\* ExtractColumnPack has returned: the Branch it read and the Branch it made
\* hold equal children that are two nodes
C1_Witness ==
    /\ run = "ok"
    /\ call.com = <<"|", "]">>
    /\ Len(Data) = 2
    /\ Trees(heap, Data) = << [children |-> << [leaf |-> <<>>] >>],
                              [children |-> << [leaf |-> <<>>] >>] >>
    /\ heap[Data[1]].Branches # heap[Data[2]].Branches

\* C2: an error of an operation's argument check (missing argument, type
\* mismatch, invalid integer, empty separator, invalid depth) arrives in the
\* catch block of EvalCom with level Critical, and EvalCom throws it on
\* exactly when ApprovedLevel is Warning or Minor.
C2_CriticalGate ==
    call.op = "EvalCom" /\ call.raised # NoExc =>
        /\ ErrorLevel(call.raised) = Critical
        /\ \A level \in Levels :
              ApprovedLevel = {level} =>
                 ((call.thrown # NoExc) <=> level \in {Warning, Minor})

\* C3: a registered operation called on a stack with fewer nodes than it
\* needs raises the missing-argument error and executes nothing undefined:
\* every operation but EmptyBranch and EmptyElement on the empty stack, and
\* Duplicate when the count 2 is the only node.
C3_MissingArgument ==
    [][(\/ /\ Data = <<>>
           /\ \E com \in Registered \ {<<"|", "E", "b">>, <<"|", "E", "v">>} :
                 Stepped(com)
        \/ /\ Trees(heap, Data) = << [leaf |-> <<"2">>] >>
           /\ Stepped(<<"|", "c">>))
       => run' = "ok" /\ MissingArgument(call'.raised)]_vars

\* what C4 says of a call with the token com
LiteralPushed(com) ==
    /\ run' = "ok"
    /\ call'.raised = NoExc
    /\ Len(Data') = Len(Data) + 1
    /\ Trees(heap', Data')[Len(Data')] = [leaf |-> com]
    /\ SubSeq(Trees(heap', Data'), 1, Len(Data)) = Trees(heap, Data)
    /\ Log' = Log

\* C4, as stated: for any token that is not in the registry, EvalCom makes
\* the Data stack one node larger, the new top is a Value whose text is the
\* token, the nodes beneath are as they were, and the Log is unchanged.
C4_AnyToken ==
    [][\A com \in Tokens \ Registered : Stepped(com) => LiteralPushed(com)]_vars

\* C4, amended: the same for any token that is not in the registry and is
\* not empty (EvalCom returns at once on the empty token).
C4_LiteralPush ==
    [][\A com \in Tokens \ Registered :
          com # <<>> /\ Stepped(com) => LiteralPushed(com)]_vars

\* the literal x has been pushed on a stack of one node, the Log not empty
C4_Witness ==
    /\ phase = 1
    /\ call.com = <<"x">>
    /\ Log # <<>>
    /\ Len(Data) = 2
    /\ TreeOf(heap, Data[2]) = [leaf |-> <<"x">>]

\* a text RequireInteger rejects
BadInteger(text) ==
    \/ text = <<>>
    \/ Len(text) > 8
    \/ \E i \in 1 .. Len(text) : ~IsDigit(text[i])

IntegerOps ==
    { <<"^", "t", "c">>, <<"|", "i">>, <<"|", "[">>, <<"|", "i", "d">>,
      <<"|", "]">>, <<"|", "]", "g">>, <<"|", "c">>, <<"#", "d">> }

\* C5: every operation that takes an integer argument (PackTopX, CopyFromIndex,
\* ExtractColumnPack, ExtractGroupedColumnPack, Duplicate, DeepRemove) raises
\* the invalid-integer error when the argument on top of the stack is a Value
\* whose text is empty, longer than 8 characters or not all digits.
C5_InvalidInteger ==
    [][\A com \in IntegerOps :
          /\ Data # <<>>
          /\ IsValueNode(heap[Data[Len(Data)]])
          /\ BadInteger(heap[Data[Len(Data)]].Stored)
          /\ Stepped(com)
          => run' = "ok" /\ InvalidInteger(call'.raised)]_vars

\* C6: for any source text and any separator that is not empty, SplitRow
\* with the separator and then ConcatRow with the same separator raise
\* nothing and leave on top of the stack a Value whose text is the source:
\* an empty source, a source that begins or ends with the separator, that
\* holds it twice in a row or in overlapping places.
C6_SplitConcat ==
    /\ phase >= 1 => run = "ok" /\ call.raised = NoExc
    /\ phase = 4 => Trees(heap, Data) = << [leaf |-> snap.src] >>

\* aaa has been split at aa, where two matches overlap, and joined again
C6_Witness ==
    /\ phase = 4
    /\ snap = [src |-> <<"a", "a", "a">>, sep |-> <<"a", "a">>]
    /\ call.com = <<"$", "^">>
    /\ call.raised = NoExc

\* C7: for any stack and any count c from 0 to the number of its nodes,
\* pushing c, PackTopX and then UnpackTop raise nothing and leave a stack
\* equal by value and order to the stack before c was pushed.
C7_PackUnpack ==
    /\ phase >= 1 => run = "ok" /\ call.raised = NoExc
    /\ phase = 3 => Trees(heap, Data) = snap.stack

\* three different nodes, a Branch among them, were packed and unpacked again
C7_Witness ==
    /\ phase = 3
    /\ call.com = <<"^", "_", "t">>
    /\ snap = [stack |-> << [children |-> << [leaf |-> <<"x">>] >>],
                            [leaf |-> <<"1">>], [leaf |-> <<"2">>] >>,
               count |-> 3]
    /\ Trees(heap, Data) = snap.stack

\* C8: EvalComs evaluates the tokens of the batch in their order; once it
\* has thrown an exception on, no later token is evaluated; after an
\* exception it has absorbed the next token is evaluated, so that a batch
\* that returns has evaluated every token.
C8_BatchOrder ==
    /\ evald = SubSeq(coms, 1, Len(evald))
    /\ idx > 0 => /\ idx <= Len(coms)
                  /\ Len(evald) = idx - 1
                  /\ call.thrown = NoExc
                  /\ run = "ok"
    /\ idx = 0 /\ run = "ok" /\ call.op = "EvalComs" =>
          IF call.thrown # NoExc
          THEN call.thrown = call.raised /\ call.com = coms[Len(evald)]
          ELSE evald = coms

\* the exception of the first token was absorbed and the two tokens after it
\* were evaluated
C8_Witness ==
    /\ idx = 0
    /\ coms = << <<"^", "t">>, <<"x">>, <<"^", "t">> >>
    /\ evald = coms
    /\ Len(Log) = 1
    /\ call.raised = NoExc

RECURSIVE Executed(_, _)
\* the tokens 1 .. i of the batch, each once, one to a line
Executed(batch, i) ==
    IF i = 0 THEN <<>>
    ELSE Executed(batch, i - 1) \o <<"\t">> \o batch[i] \o <<"\n">>

\* C9: when the token at place i of a batch fails, the Log entry written for
\* it holds as its trace the tokens at places 1 .. i of the batch, each once
\* and in the order they were evaluated.
C9_Trace ==
    call.op = "EvalComs" /\ call.raised # NoExc /\ run = "ok" =>
        /\ Log # <<>>
        /\ Log[Len(Log)] =
              call.raised.what_ \o <<"\nCaused during invoking:">>
                 \o coms[Len(evald)] \o <<"\nCom trace:">>
                 \o Executed(coms, Len(evald))

\* the length of the longest run of nodes of depth d at the top of the stack
TopRun(h, data, d) ==
    CHOOSE k \in 0 .. Len(data) :
        /\ \A i \in 1 .. k : Depth(h, data[Len(data) + 1 - i]) = d
        /\ k = Len(data) \/ Depth(h, data[Len(data) - k]) # d

\* what C10 says of a call that found the stack data and a run of k nodes
RunPacked(k) ==
    /\ run' = "ok"
    /\ call'.raised = NoExc
    /\ Len(Data') = Len(Data) - k + 1
    /\ SubSeq(Trees(heap', Data'), 1, Len(Data) - k)
          = SubSeq(Trees(heap, Data), 1, Len(Data) - k)
    /\ Trees(heap', Data')[Len(Data')]
          = [children |-> [i \in 1 .. k |->
                              Trees(heap, Data)[Len(Data) + 1 - i]]]

\* C10: on a stack that is not empty and whose top has depth d,
\* PackTopSameLevel pops the longest run of nodes of depth d that starts at
\* the top and pushes one Branch whose children are these nodes in the order
\* they were popped, the top first; the nodes beneath stay as they are.
C10_PackSameDepth ==
    [][Data # <<>> /\ Stepped(<<"^">>)
       => RunPacked(TopRun(heap, Data, Depth(heap, Data[Len(Data)])))]_vars

\* x, 1, 2, ^ has left one Branch with the children 2, 1, x
C10_Witness ==
    /\ phase = 1
    /\ call.com = <<"^">>
    /\ Trees(heap, Data) = << [children |-> << [leaf |-> <<"2">>],
                                               [leaf |-> <<"1">>],
                                               [leaf |-> <<"x">>] >>] >>

\* C11: RequireInteger accepts a node exactly when it is a Value whose text
\* has 1 to 8 characters, every one of them among 0 .. 9; it raises an error
\* for a Branch, the empty text, a text of 9 or more characters and a text
\* that holds a sign, a dot, a letter or a blank.
C11_UnsignedInteger ==
    call.op = "RequireInteger" =>
        ((call.raised = NoExc) <=>
            /\ heap[Data[Len(Data)]].kind = "Value"
            /\ Len(heap[Data[Len(Data)]].Stored) \in 1 .. 8
            /\ \A i \in 1 .. Len(heap[Data[Len(Data)]].Stored) :
                  heap[Data[Len(Data)]].Stored[i]
                     \in {"0", "1", "2", "3", "4", "5", "6", "7", "8", "9"})

\* a text of eight digits was accepted
C11_Witness ==
    /\ call.op = "RequireInteger"
    /\ call.raised = NoExc
    /\ TreeOf(heap, Data[1]) = [leaf |-> [i \in 1 .. 8 |-> "9"]]

\* C12: while ApprovedLevel has never been assigned, every error of level
\* Minor, Critical or Fatal that is raised while EvalCom evaluates a token
\* leaves EvalCom, thrown on to the caller.
C12_DefaultThreshold ==
    /\ ApprovedLevel = IndeterminateLevels
    /\ call.op = "EvalCom"
    /\ call.raised # NoExc
    /\ ErrorLevel(call.raised) \in {Minor, Critical, Fatal}
    => call.thrown = call.raised

\* C13: once Copy has pushed a clone, a change made in place to the node on
\* top (Reverse on a Value or a Branch, Undot) leaves every node beneath it
\* equal in value, nested nodes included: a change to the clone leaves the
\* original as it was, and, when the original is the node on top, a change to
\* it leaves the clone as it was.
C13_CopyIndependent ==
    [][phase >= 1 /\ call'.op = "EvalCom"
       => /\ run' = "ok"
          /\ Len(Data') = Len(Data)
          /\ SubSeq(Trees(heap', Data'), 1, Len(Data) - 1)
                = SubSeq(Trees(heap, Data), 1, Len(Data) - 1)]_vars

\* the original .a was brought on top and Undot made it a, the clone beneath
\* is still .a
C13_Witness ==
    /\ snap = [top |-> "original"]
    /\ call.com = <<"$">>
    /\ call.raised = NoExc
    /\ Trees(heap, Data) = << [leaf |-> <<".", "a">>], [leaf |-> <<"a">>] >>

\* C14: on a stack with the count c on top and at least c nodes beneath it,
\* PackTopX raises nothing, removes the count and the c nodes beneath it and
\* pushes one Branch whose c children are these nodes, the deepest first;
\* the nodes below them stay as they are.
C14_PackTopCount ==
    phase = 2 =>
        /\ run = "ok"
        /\ call.raised = NoExc
        /\ Trees(heap, Data) =
              Append(SubSeq(snap.stack, 1, Len(snap.stack) - snap.count),
                     [children |-> SubSeq(snap.stack,
                                          Len(snap.stack) - snap.count + 1,
                                          Len(snap.stack))])

\* x, 1, 2, 2, ^tc has left x and above it one Branch with the children 1, 2
C14_Witness ==
    /\ phase = 2
    /\ call.com = <<"^", "t", "c">>
    /\ snap.count = 2
    /\ Trees(heap, Data) = << [leaf |-> <<"x">>],
                              [children |-> << [leaf |-> <<"1">>],
                                               [leaf |-> <<"2">>] >>] >>

\* the Log entry holds "\nCaused during invoking:" followed by the token
Names(entry, com) ==
    \E k \in 1 .. Len(entry) :
        SubSeq(entry, k, k + Len(com)) = <<"\nCaused during invoking:">> \o com

\* the entries the Log held are all still there, in their places
LogKept == Len(Log') >= Len(Log) /\ SubSeq(Log', 1, Len(Log)) = Log

\* the step is a call of EvalCom from outside, or the begin or a round of
\* EvalComs
TokenEvaluated == call'.op \in {"EvalCom", "EvalComs"}

\* the step has appended one entry, which names the token evaluated
OneEntry == Len(Log') = Len(Log) + 1 /\ Names(Log'[Len(Log')], call'.com)

C16_PrintKeepsStack ==
    [][call'.op = "PrintData"
       => /\ snap'.visited = [i \in 1 .. Len(Data) |-> Data[Len(Data) + 1 - i]]
          /\ Data' = Data
          /\ heap' = heap
          /\ Trees(heap', Data') = Trees(heap, Data)]_vars

\* a stack of a Branch and two Values above it was printed, the top first
C16_Witness ==
    /\ call.op = "PrintData"
    /\ Len(Data) = 3
    /\ snap.out = <<"2", "\n", "1", "\n", "./section", "\n", "\t", "x", "\n">>

\* the tree Require was handed
Root == TreeOf(heap, Data[Len(Data)])

IsLeaf(tree) == "leaf" \in DOMAIN tree

IsBranch(tree) == "children" \in DOMAIN tree

\* a Branch whose first three children are a Leaf, a Branch whose first child
\* is a Leaf, and a Leaf
ShapedVbvV(tree) ==
    /\ IsBranch(tree)
    /\ Len(tree.children) >= 3
    /\ IsLeaf(tree.children[1])
    /\ IsBranch(tree.children[2])
    /\ Len(tree.children[2].children) >= 1
    /\ IsLeaf(tree.children[2].children[1])
    /\ IsLeaf(tree.children[3])

\* a pattern of the opcodes v and e only
Flat(request) ==
    request # <<>> /\ \A k \in 1 .. Len(request) : request[k] \in {"v", "e"}

\* C17: Require starts with one cursor at the first child of the root and
\* applies every opcode once.  So it accepts, for the pattern vbv.v, exactly
\* the Branches whose first three children are a Leaf, a Branch whose first
\* child is a Leaf, and a Leaf; and for a pattern of v and e that is no
\* longer than the root has children, exactly the Branches whose k-th child
\* is a Leaf wherever the k-th opcode is v.
C17_RequirePattern ==
    call.op = "Require" /\ IsBranch(Root) =>
        /\ call.com = <<"v", "b", "v", ".", "v">> =>
              run = "ok" /\ ((call.raised = NoExc) <=> ShapedVbvV(Root))
        /\ Flat(call.com) /\ Len(call.com) <= Len(Root.children) =>
              /\ run = "ok"
              /\ (call.raised = NoExc) <=>
                    \A k \in 1 .. Len(call.com) :
                        call.com[k] = "v" => IsLeaf(Root.children[k])

\* C18: Require reads no child outside a Branch's child list and neither
\* reads nor pops an empty stack of cursors or scopes, whatever the pattern;
\* an opcode b, v, i or e met while the cursor is at or past the end of the
\* children raises an error: the first opcode on a root without children,
\* and the opcode after the last child in a pattern of v, i and e.
C18_RequireBounds ==
    call.op = "Require" /\ IsBranch(Root) =>
        /\ run = "ok"
        /\ call.com # <<>> /\ call.com[1] \in {"b", "v", "i", "e"}
              /\ Root.children = <<>>
              => call.raised # NoExc
        /\ (\A k \in 1 .. Len(call.com) : call.com[k] \in {"v", "i", "e"})
              /\ Len(call.com) > Len(Root.children)
              => call.raised # NoExc

\* the child at position pos (counted from 0) of a Branch, if it has one
ChildAt(tree, pos) ==
    IF pos < Len(tree.children) THEN <<tree.children[pos + 1]>> ELSE <<>>

RECURSIVE Column(_, _, _)
RECURSIVE ColumnOfAll(_, _, _)
\* the columns of the trees, one after the other
ColumnOfAll(trees, pos, n) ==
    IF trees = <<>> THEN <<>>
    ELSE Column(trees[1], pos, n) \o ColumnOfAll(Tail(trees), pos, n)

\* the children at position pos of the Branches at nesting distance n from
\* tree (tree itself being at distance 0), depth first, left to right
Column(tree, pos, n) ==
    IF IsLeaf(tree) THEN <<>>
    ELSE IF n = 0 THEN ChildAt(tree, pos)
    ELSE ColumnOfAll(tree.children, pos, n - 1)

\* C19: with the index idx on top, the depth d >= 1 beneath it and a Branch
\* beneath both, ExtractColumnPack raises nothing, leaves the Branch as it
\* is and pushes one Branch whose children are the children at position idx
\* of the Branches at nesting distance d from the root (the root at distance
\* 0, its child Branches at distance 1), depth first and left to right;
\* Branches at that distance without a child at idx add nothing.
C19_ExtractColumn ==
    /\ phase = 3
    /\ call.com = <<"|", "]">>
    /\ snap.depth >= 1
    /\ IsBranch(snap.root)
    => /\ run = "ok"
       /\ call.raised = NoExc
       /\ Trees(heap, Data) =
             << snap.root,
                [children |-> Column(snap.root, snap.index, snap.depth)] >>

RECURSIVE Grouped(_, _, _)
RECURSIVE GroupedOfAll(_, _, _)
\* what the trees add to the mirror of their parent, one after the other
GroupedOfAll(trees, pos, n) ==
    IF trees = <<>> THEN <<>>
    ELSE Grouped(trees[1], pos, n) \o GroupedOfAll(Tail(trees), pos, n)

\* what tree, with the target Branches at nesting distance n from it, adds to
\* the mirror of its parent: nothing if it is a Leaf, its child at pos if it
\* is a target itself, and else its own mirror Branch
Grouped(tree, pos, n) ==
    IF IsLeaf(tree) THEN <<>>
    ELSE IF n = 0 THEN ChildAt(tree, pos)
    ELSE << [children |-> GroupedOfAll(tree.children, pos, n - 1)] >>

\* the Branch pushed for the root: the root's mirror
Mirror(root, pos, n) == [children |-> GroupedOfAll(root.children, pos, n - 1)]

\* C20: the Branch ExtractGroupedColumnPack pushes holds a mirror Branch for
\* the Branches above the target depth and for no other, nested as in the
\* input; a Branch at the target depth adds its child at idx to the mirror of
\* its parent, and nothing at all when it has no such child.  Stated for
\* d >= 2, and with the targets at nesting distance d from the root, as the
\* claim counts, or at distance d - 1, as ExtractColumnPack counts: either
\* output is accepted.
C20_GroupedColumn ==
    /\ phase = 3
    /\ call.com = <<"|", "]", "g">>
    /\ snap.depth >= 2
    /\ IsBranch(snap.root)
    => /\ run = "ok"
       /\ call.raised = NoExc
       /\ Len(Data) = 2
       /\ TreeOf(heap, Data[1]) = snap.root
       /\ TreeOf(heap, Data[2])
             \in { Mirror(snap.root, snap.index, snap.depth),
                   Mirror(snap.root, snap.index, snap.depth - 1) }

\* C21: with the count c on top and at least c + 1 nodes beneath it,
\* DeepRemove raises nothing and removes the count and the node that is c
\* nodes below the top: the c nodes above it stay on top in their order, the
\* nodes below it stay as they are.  With fewer than c + 1 nodes beneath the
\* count it raises an error and removes the count only.
C21_DeepRemove ==
    phase = 2 /\ call.com = <<"#", "d">> =>
        /\ run = "ok"
        /\ IF snap.count + 1 <= Len(snap.stack)
           THEN /\ call.raised = NoExc
                /\ Trees(heap, Data) =
                      SubSeq(snap.stack, 1, Len(snap.stack) - snap.count - 1)
                         \o SubSeq(snap.stack, Len(snap.stack) - snap.count + 1,
                                   Len(snap.stack))
           ELSE /\ call.raised # NoExc
                /\ Trees(heap, Data) = snap.stack

\* the Branch two nodes below the top was removed, 1 and 2 stay on top
C21_Witness ==
    /\ phase = 2
    /\ call.com = <<"#", "d">>
    /\ snap = [stack |-> << [children |-> << [leaf |-> <<"x">>] >>],
                            [leaf |-> <<"1">>], [leaf |-> <<"2">>] >>,
               count |-> 2]
    /\ Trees(heap, Data) = << [leaf |-> <<"1">>], [leaf |-> <<"2">>] >>

\* C22: with the count c on top, any c RequireInteger accepts, 0 and 1
\* included, and a node X beneath it, Duplicate raises nothing, removes the
\* count and leaves c nodes equal in value to X where X was, above the nodes
\* that were below X, which stay as they are.
C22_Duplicate ==
    phase = 2 /\ call.com = <<"|", "c">> /\ snap.stack # <<>> =>
        /\ run = "ok"
        /\ call.raised = NoExc
        /\ Trees(heap, Data) =
              SubSeq(snap.stack, 1, Len(snap.stack) - 1)
                 \o [i \in 1 .. snap.count |-> snap.stack[Len(snap.stack)]]
====
